---- MODULE Spec2Model ----
(***************************************************************************)
(* Model of eval.py: the processors that read the raw delimited files,     *)
(* load_and_cache_examples (legacy and extended strategy), the batched     *)
(* evaluation loop of evaluate with its running aggregates, get_metrics,   *)
(* and the loop of main over the weight files.                             *)
(*                                                                         *)
(* Python values are represented as follows.  An optional value is a       *)
(* sequence of length 0 (None) or 1 (the value).  A quotient of two        *)
(* numbers is kept as the pair <<numerator, denominator>>; two quotients   *)
(* are compared with RatEq.  A dataset row and a batch row are the tuple   *)
(* of the row's fields; a batch is the sequence of its rows.               *)
(***************************************************************************)
EXTENDS Integers, Sequences, FiniteSets, TLC

\* ---------------------------------------------------------------- bounds
MaxRows == 3
MaxBatch == 2
MaxRuns == 2

\* ------------------------------------------------------- generic helpers
None == <<>>
Some(x) == <<x>>
IsNone(o) == o = <<>>
Get(o) == o[1]

Rat(n, d) == <<n, d>>
RatEq(a, b) == a[2] # 0 /\ b[2] # 0 /\ a[1] * b[2] = b[1] * a[2]
Zero == Rat(0, 1)

Min(a, b) == IF a <= b THEN a ELSE b
CeilDiv(a, b) == (a + b - 1) \div b

RECURSIVE SumSeq(_)
SumSeq(s) == IF s = <<>> THEN 0 ELSE Head(s) + SumSeq(Tail(s))

Reverse(s) == [i \in 1..Len(s) |-> s[Len(s) + 1 - i]]

\* ------------------------------------------------------------ input sets
Texts == {"t1", "t2"}
Tasks == {"old", "new_clean", "new"}
WeightFiles == {"w_seed1", "w_seed2"}
\* A data directory path, as the sequence of its pieces.
DataDirs == {<<"data/", "baseline_", "reddit">>, <<"data/", "reddit">>}
\* The rows a raw file is made of: four cells or more, the label in cell 1
\* and the text in cell 3.
FileRows == {<<"id", "0", "src", "t1">>, <<"id", "1", "src", "t1">>,
             <<"id", "1", "src", "t2", "extra">>}
RowLists == UNION {[1..n -> FileRows] : n \in 0..MaxRows}
WeightLists == UNION {[1..n -> WeightFiles] : n \in 1..MaxRuns}

VARIABLES
    args,            \* the parsed command line (main)
    task_name,       \* main: the processor selected from the weight paths
    files,           \* the raw files under args.data_dir, by file name
    pc,              \* where main is
    err,             \* the exception that ended main, when pc = "error"
    run,             \* main: number of weight files evaluated so far
    model_params,    \* the model's parameters (load_state_dict)
    calls,           \* the processor methods called so far
    examples,        \* load_and_cache_examples: the examples read (legacy)
    eval_data,       \* evaluate: the assembled dataset
    dl_pos,          \* the data loader's position: rows yielded so far
    batch,           \* evaluate: the batch of the current iteration
    inputs,          \* evaluate: the bundle the model was last invoked with
    agg,             \* evaluate: the running aggregates
    metrics,         \* evaluate: (eval_f1, eval_precision, eval_recall)
    result,          \* the triple evaluate last returned
    printed          \* main: the triples printed, one per weight file

vars == <<args, task_name, files, pc, err, run, model_params, calls, examples,
          eval_data, dl_pos, batch, inputs, agg, metrics, result, printed>>

\* -------------------------------------------------------------- examples
InputExample(guid, text_a, text_b, label) ==
    [guid |-> guid, text_a |-> text_a, text_b |-> text_b, label |-> label]

\* "%s-%s" % (set_type, i)
Guid(set_type, i) == set_type \o "-" \o ToString(i)

\* Python's line[k] is cell k + 1 of the row.
Cell(line, k) == line[k + 1]

\* _read_tsv: the rows of the file, in file order.
read_tsv(input_file) == files[input_file]

\* ------------------------------------------------------------ processors
TrainFile == [t \in Tasks |->
    CASE t = "old" -> "train.tsv"
      [] t = "new_clean" -> "train_clean.tsv"
      [] t = "new" -> "train_wordnet_amb.tsv"]

DevFile == [t \in Tasks |->
    CASE t = "old" -> "dev.tsv"
      [] t = "new_clean" -> "dev_clean.tsv"
      [] t = "new" -> "dev_wordnet_amb.tsv"]

\* The split file the extended dataset object reads (task = 'test').
TestFile == "test.tsv"

FileNames == {TrainFile[t] : t \in Tasks} \cup {DevFile[t] : t \in Tasks}
                 \cup {TestFile}

\* A processor that, like Sst2Processor, skips row 0 as a header.
create_examples_SkipHeader(lines, set_type) ==
    [i \in 1..(Len(lines) - 1) |->
        InputExample(Guid(set_type, i), Cell(lines[i + 1], 3), None,
                     Cell(lines[i + 1], 1))]

\* ColaProcessor._create_examples ("old")
ColaProcessor_create_examples(lines, set_type) ==
    [i \in 1..Len(lines) |->
        InputExample(Guid(set_type, i - 1), Cell(lines[i], 3), None,
                     Cell(lines[i], 1))]

\* DumbProcessorClean._create_examples ("new_clean")
DumbProcessorClean_create_examples(lines, set_type) ==
    [i \in 1..Len(lines) |->
        InputExample(Guid(set_type, i - 1), Cell(lines[i], 3), None,
                     Cell(lines[i], 1))]

\* DumbProcessor._create_examples ("new")
DumbProcessor_create_examples(lines, set_type) ==
    [i \in 1..Len(lines) |->
        InputExample(Guid(set_type, i - 1), Cell(lines[i], 3), None,
                     Cell(lines[i], 1))]

\* processors[task_name]()._create_examples
create_examples(task, lines, set_type) ==
    CASE task = "old" -> ColaProcessor_create_examples(lines, set_type)
      [] task = "new_clean" -> DumbProcessorClean_create_examples(lines, set_type)
      [] task = "new" -> DumbProcessor_create_examples(lines, set_type)

get_train_examples(task) ==
    create_examples(task, read_tsv(TrainFile[task]), "train")

get_dev_examples(task) ==
    create_examples(task, read_tsv(DevFile[task]), "dev")

get_labels(task) == <<"0", "1">>

\* ------------------------------------------------------ feature building
TokenId == [t \in Texts |-> IF t = "t1" THEN 101 ELSE 102]
AmbiguityScore == [t \in Texts |-> IF t = "t1" THEN 0 ELSE 1]

\* label_map[example.label]: the position of the label in label_list, from 0.
LabelId(label_list, label) ==
    (CHOOSE i \in 1..Len(label_list) : label_list[i] = label) - 1

\* convert_examples_new: one feature per example, in order.
convert_examples_new(exs, label_list) ==
    [i \in 1..Len(exs) |->
        [input_ids |-> TokenId[exs[i].text_a], input_mask |-> 1,
         segment_ids |-> 0, label_id |-> LabelId(label_list, exs[i].label)]]

\* HumorDetectionDataset + convert_dataset_to_features: one feature per row
\* of the test split, with its ambiguity score.
convert_dataset_to_features(lines) ==
    [i \in 1..Len(lines) |->
        [input_ids |-> TokenId[Cell(lines[i], 3)], input_mask |-> 1,
         segment_ids |-> 0,
         label_id |-> LabelId(<<"0", "1">>, Cell(lines[i], 1)),
         ambiguity |-> AmbiguityScore[Cell(lines[i], 3)]]]

\* The module-level name `evaluate` is bound to a function object; Python
\* counts a function object as true.
evaluate_object == [kind |-> "function"]
Truthy(o) == IF o.kind = "bool" THEN o.val ELSE o.kind = "function"

\* The legacy branch taken were `evaluate` falsy: the train split.
legacy_examples_Train(task) ==
    [call |-> "get_train_examples", examples |-> get_train_examples(task)]

\* `if not evaluate:` tests the module-level function evaluate, which is
\* truthy: the else branch, the dev split, is the one taken.
legacy_examples(task) ==
    IF ~Truthy(evaluate_object)
    THEN [call |-> "get_train_examples", examples |-> get_train_examples(task)]
    ELSE [call |-> "get_dev_examples", examples |-> get_dev_examples(task)]

\* TensorDataset(input_ids, input_masks, token_type_ids, labels)
LegacyDataset(features) ==
    [i \in 1..Len(features) |->
        <<features[i].input_ids, features[i].input_mask,
          features[i].segment_ids, features[i].label_id>>]

\* TensorDataset(input_ids, input_masks, token_type_ids, labels, ambiguity_scores)
ExtendedDataset(features) ==
    [i \in 1..Len(features) |->
        <<features[i].input_ids, features[i].input_mask,
          features[i].segment_ids, features[i].label_id,
          features[i].ambiguity>>]

\* load_and_cache_examples: the dataset, the examples read and the processor
\* method called (none under the extended strategy).
load_and_cache_examples(a, task) ==
    IF a.old_load
    THEN LET got == legacy_examples(task)
             features == convert_examples_new(got.examples, get_labels(task))
         IN  [dataset |-> LegacyDataset(features),
              examples |-> got.examples, called |-> <<got.call>>]
    ELSE LET features == convert_dataset_to_features(read_tsv(TestFile))
         IN  [dataset |-> ExtendedDataset(features),
              examples |-> <<>>, called |-> <<>>]

\* ------------------------------------------------------------- the model
\* torch.load(weights_path): the parameters stored in each weight file, here
\* the logits the classifier gives each token id.
StateDict == [w \in WeightFiles |->
    IF w = "w_seed1"
    THEN [id \in {101, 102} |-> IF id = 101 THEN <<1, 0>> ELSE <<0, 1>>]
    ELSE [id \in {101, 102} |-> IF id = 101 THEN <<0, 1>> ELSE <<1, 1>>]]

\* model(**inputs)[:2]: the batch's mean loss (in twelfths) and one row of
\* logits per row of the batch.
Model_forward(params, inp) ==
    LET n == Len(inp.input_ids)
        logits == [i \in 1..n |-> params[inp.input_ids[i]]]
        rowloss == [i \in 1..n |->
            1 + logits[i][2 - inp.labels[i]] - logits[i][inp.labels[i] + 1]]
    IN  [loss |-> (12 * SumSeq(rowloss)) \div n, logits |-> logits]

\* A load that keeps the parameters already in the model.
load_state_dict_KeepLoaded(current, state_dict) ==
    IF IsNone(current) THEN Some(state_dict) ELSE current

\* model.load_state_dict(state_dict): the parameters are replaced.
load_state_dict(current, state_dict) == Some(state_dict)

\* ------------------------------------------------------- the data loader
\* DataLoader over a SequentialSampler: the batch that starts after `pos`
\* rows, as the tuple of its columns (one per field of the dataset).
DataLoaderBatch(data, batch_size, pos) ==
    LET rows == SubSeq(data, pos + 1, Min(pos + batch_size, Len(data)))
    IN  [k \in 1..Len(data[1]) |-> [i \in 1..Len(rows) |-> rows[i][k]]]

\* ------------------------------------------------------------- evaluate
\* "piece" in path
HasSubstring(path, piece) == \E i \in 1..Len(path) : path[i] = piece

\* The input bundle of one batch; batch[4] is the fifth column, and raises
\* IndexError on a batch of four columns.
build_inputs(b, data_dir) ==
    LET base == [input_ids |-> b[1], token_type_ids |-> b[3],
                 attention_mask |-> b[2], labels |-> b[4]]
    IN  IF ~HasSubstring(data_dir, "baseline_")
        THEN IF Len(b) < 5
             THEN [raised |-> "IndexError", inputs |-> base]
             ELSE [raised |-> "",
                   inputs |-> base @@ ("ambiguity_scores" :> b[5])]
        ELSE [raised |-> "", inputs |-> base]

\* np.argmax of one row of logits: the first position of the maximum, from 0.
ArgMax(row) ==
    (CHOOSE j \in 1..Len(row) :
        /\ \A k \in 1..Len(row) : row[k] <= row[j]
        /\ \A k \in 1..(j - 1) : row[k] < row[j]) - 1

\* accuracy(out, labels): the number of rows whose argmax is the label.
accuracy(out, labels) ==
    Cardinality({i \in 1..Len(out) : ArgMax(out[i]) = labels[i]})

\* np.append(full, new, axis=0), or new itself when full is None.
append_buffer(full, new) ==
    IF IsNone(full) THEN Some(new) ELSE Some(Get(full) \o new)

\* eval_loss, eval_accuracy = 0, 0 ... full_labels = None
reset_aggregates ==
    [eval_loss |-> 0, eval_accuracy |-> 0, nb_eval_steps |-> 0,
     nb_eval_examples |-> 0, full_logits |-> None, full_labels |-> None]

\* A fold that assigns the batch's correct count instead of adding it.
fold_batch_Overwrite(a, out, inp) ==
    [eval_loss |-> a.eval_loss + out.loss,
     eval_accuracy |-> accuracy(out.logits, inp.labels),
     nb_eval_steps |-> a.nb_eval_steps + 1,
     nb_eval_examples |-> a.nb_eval_examples + Len(inp.input_ids),
     full_logits |-> append_buffer(a.full_logits, out.logits),
     full_labels |-> append_buffer(a.full_labels, inp.labels)]

\* A fold that counts one example per batch.
fold_batch_OnePerBatch(a, out, inp) ==
    [eval_loss |-> a.eval_loss + out.loss,
     eval_accuracy |-> a.eval_accuracy + accuracy(out.logits, inp.labels),
     nb_eval_steps |-> a.nb_eval_steps + 1,
     nb_eval_examples |-> a.nb_eval_examples + 1,
     full_logits |-> append_buffer(a.full_logits, out.logits),
     full_labels |-> append_buffer(a.full_labels, inp.labels)]

\* The rest of one iteration: the model's output folded into the aggregates.
fold_batch(a, out, inp) ==
    [eval_loss |-> a.eval_loss + out.loss,
     eval_accuracy |-> a.eval_accuracy + accuracy(out.logits, inp.labels),
     nb_eval_steps |-> a.nb_eval_steps + 1,
     nb_eval_examples |-> a.nb_eval_examples + Len(inp.input_ids),
     full_logits |-> append_buffer(a.full_logits, out.logits),
     full_labels |-> append_buffer(a.full_labels, inp.labels)]

\* -------------------------------------------------------------- metrics
TruePos(y_true, y_pred) ==
    Cardinality({i \in 1..Len(y_true) : y_true[i] = 1 /\ y_pred[i] = 1})
FalsePos(y_true, y_pred) ==
    Cardinality({i \in 1..Len(y_true) : y_true[i] # 1 /\ y_pred[i] = 1})
FalseNeg(y_true, y_pred) ==
    Cardinality({i \in 1..Len(y_true) : y_true[i] = 1 /\ y_pred[i] # 1})

\* sklearn's binary scores for the positive class 1; a quotient with a zero
\* denominator is 0 (zero_division="warn" warns and gives 0).
precision_score(y_true, y_pred) ==
    LET tp == TruePos(y_true, y_pred)
        fp == FalsePos(y_true, y_pred)
    IN  IF tp + fp = 0 THEN Zero ELSE Rat(tp, tp + fp)

recall_score(y_true, y_pred) ==
    LET tp == TruePos(y_true, y_pred)
        fn == FalseNeg(y_true, y_pred)
    IN  IF tp + fn = 0 THEN Zero ELSE Rat(tp, tp + fn)

f1_score(y_true, y_pred) ==
    LET tp == TruePos(y_true, y_pred)
        fp == FalsePos(y_true, y_pred)
        fn == FalseNeg(y_true, y_pred)
    IN  IF tp = 0 THEN Zero ELSE Rat(2 * tp, 2 * tp + fp + fn)

NoMetrics == [f1 |-> Zero, prec |-> Zero, recall |-> Zero]

\* A get_metrics that takes missing buffers for empty ones.
get_metrics_NoneAsEmpty(logits, labels) ==
    IF IsNone(logits)
    THEN [raised |-> "", f1 |-> Zero, prec |-> Zero, recall |-> Zero]
    ELSE LET outputs == [i \in 1..Len(Get(logits)) |-> ArgMax(Get(logits)[i])]
         IN  [raised |-> "",
              f1 |-> f1_score(Get(labels), outputs),
              prec |-> precision_score(Get(labels), outputs),
              recall |-> recall_score(Get(labels), outputs)]

\* A get_metrics whose scores divide without a guard.
get_metrics_Unguarded(logits, labels) ==
    IF IsNone(logits)
    THEN [raised |-> "AxisError"] @@ NoMetrics
    ELSE LET outputs == [i \in 1..Len(Get(logits)) |-> ArgMax(Get(logits)[i])]
             tp == TruePos(Get(labels), outputs)
             fp == FalsePos(Get(labels), outputs)
             fn == FalseNeg(Get(labels), outputs)
         IN  IF tp + fp = 0 \/ tp + fn = 0
             THEN [raised |-> "ZeroDivisionError"] @@ NoMetrics
             ELSE [raised |-> "",
                   f1 |-> Rat(2 * tp, 2 * tp + fp + fn),
                   prec |-> Rat(tp, tp + fp),
                   recall |-> Rat(tp, tp + fn)]

\* get_metrics: np.argmax(None, axis=1) raises AxisError (None is an array
\* of dimension 0).
get_metrics(logits, labels) ==
    IF IsNone(logits)
    THEN [raised |-> "AxisError"] @@ NoMetrics
    ELSE LET outputs == [i \in 1..Len(Get(logits)) |-> ArgMax(Get(logits)[i])]
         IN  [raised |-> "",
              f1 |-> f1_score(Get(labels), outputs),
              prec |-> precision_score(Get(labels), outputs),
              recall |-> recall_score(Get(labels), outputs)]

\* A normalization of the loss by the number of examples.
normalize_ByExamples(a) ==
    IF a.nb_eval_steps = 0 \/ a.nb_eval_examples = 0
    THEN [raised |-> "ZeroDivisionError", loss |-> Zero, acc |-> Zero]
    ELSE [raised |-> "",
          loss |-> Rat(a.eval_loss, a.nb_eval_examples),
          acc |-> Rat(a.eval_accuracy, a.nb_eval_examples)]

\* eval_loss / nb_eval_steps, eval_accuracy / nb_eval_examples
normalize(a) ==
    IF a.nb_eval_steps = 0 \/ a.nb_eval_examples = 0
    THEN [raised |-> "ZeroDivisionError", loss |-> Zero, acc |-> Zero]
    ELSE [raised |-> "",
          loss |-> Rat(a.eval_loss, a.nb_eval_steps),
          acc |-> Rat(a.eval_accuracy, a.nb_eval_examples)]

\* ---------------------------------------------------------------- state
Init ==
    /\ args \in [data_dir : DataDirs, old_load : BOOLEAN,
                 eval_batch_size : 1..MaxBatch, model_weights : WeightLists]
    /\ task_name \in Tasks
    /\ \E rows \in RowLists :
          files = [f \in FileNames |->
                      IF \E t \in Tasks : f = TrainFile[t]
                      THEN Reverse(rows) ELSE rows]
    /\ pc = "main"
    /\ err = ""
    /\ run = 0
    /\ model_params = None
    /\ calls = <<>>
    /\ examples = <<>>
    /\ eval_data = <<>>
    /\ dl_pos = 0
    /\ batch = None
    /\ inputs = None
    /\ agg = reset_aggregates
    /\ metrics = NoMetrics
    /\ result = None
    /\ printed = <<>>

\* main, one iteration of the loop over the weight files, up to the call of
\* evaluate: state_dict = torch.load(weights_path); model.load_state_dict.
MainLoad ==
    /\ pc = "main"
    /\ run < Len(args.model_weights)
    /\ model_params' = load_state_dict(model_params,
                                       StateDict[args.model_weights[run + 1]])
    /\ pc' = "begin"
    /\ UNCHANGED <<args, task_name, files, err, run, calls, examples,
                   eval_data, dl_pos, batch, inputs, agg, metrics, result,
                   printed>>

\* evaluate, up to the loop: the dataset is built, the loader starts at row
\* 0 and the aggregates are set to zero.
EvaluateBegin ==
    /\ pc = "begin"
    /\ LET d == load_and_cache_examples(args, task_name)
       IN  /\ eval_data' = d.dataset
           /\ examples' = d.examples
           /\ calls' = calls \o d.called
    /\ dl_pos' = 0
    /\ batch' = None
    /\ inputs' = None
    /\ agg' = reset_aggregates
    /\ pc' = "loop"
    /\ UNCHANGED <<args, task_name, files, err, run, model_params, metrics,
                   result, printed>>

\* evaluate, one iteration of the loop over the batches.
EvaluateBatch ==
    /\ pc = "loop"
    /\ dl_pos < Len(eval_data)
    /\ LET b == DataLoaderBatch(eval_data, args.eval_batch_size, dl_pos)
           bi == build_inputs(b, args.data_dir)
       IN  /\ batch' = Some(b)
           /\ dl_pos' = dl_pos + Len(b[1])
           /\ IF bi.raised # ""
              THEN /\ pc' = "error"
                   /\ err' = bi.raised
                   /\ UNCHANGED <<inputs, agg>>
              ELSE /\ inputs' = Some(bi.inputs)
                   /\ agg' = fold_batch(agg, Model_forward(Get(model_params),
                                                           bi.inputs),
                                        bi.inputs)
                   /\ UNCHANGED <<pc, err>>
    /\ UNCHANGED <<args, task_name, files, run, model_params, calls, examples,
                   eval_data, metrics, result, printed>>

\* evaluate, after the loop: the metrics over the buffers, the two
\* normalizations and the return of the triple.
EvaluateEnd ==
    /\ pc = "loop"
    /\ dl_pos >= Len(eval_data)
    /\ LET m == get_metrics(agg.full_logits, agg.full_labels)
           n == normalize(agg)
       IN  IF m.raised # ""
           THEN /\ pc' = "error"
                /\ err' = m.raised
                /\ UNCHANGED <<metrics, result>>
           ELSE /\ metrics' = [f1 |-> m.f1, prec |-> m.prec,
                               recall |-> m.recall]
                /\ IF n.raised # ""
                   THEN /\ pc' = "error"
                        /\ err' = n.raised
                        /\ UNCHANGED result
                   ELSE /\ result' = Some([loss |-> n.loss, acc |-> n.acc,
                                           f1 |-> m.f1])
                        /\ pc' = "report"
                        /\ UNCHANGED err
    /\ UNCHANGED <<args, task_name, files, run, model_params, calls, examples,
                   eval_data, dl_pos, batch, inputs, agg, printed>>

\* main, the rest of the iteration: the triple is printed, and the loop goes
\* on to the next weight file or ends.
MainReport ==
    /\ pc = "report"
    /\ printed' = Append(printed, Get(result))
    /\ run' = run + 1
    /\ pc' = IF run + 1 < Len(args.model_weights) THEN "main" ELSE "done"
    /\ UNCHANGED <<args, task_name, files, err, model_params, calls, examples,
                   eval_data, dl_pos, batch, inputs, agg, metrics, result>>

Next == MainLoad \/ EvaluateBegin \/ EvaluateBatch \/ EvaluateEnd \/ MainReport

Spec == Init /\ [][Next]_vars

\* =========================================================== properties
N == Len(eval_data)
B == args.eval_batch_size
Baseline == HasSubstring(args.data_dir, "baseline_")

\* The rows of the file the configured strategy reads.
SourceRows ==
    IF args.old_load THEN files[DevFile[task_name]] ELSE files[TestFile]

\* evaluate has built its dataset at least once.
Loaded == pc \notin {"main", "begin"} \/ run > 0

\* The model's output for row i of the dataset taken alone, and the gold
\* label of row i: what a pass with any batch size has to reproduce.
RowBundle(i) ==
    [input_ids |-> <<eval_data[i][1]>>, token_type_ids |-> <<eval_data[i][3]>>,
     attention_mask |-> <<eval_data[i][2]>>, labels |-> <<eval_data[i][4]>>]
RefLabels == [i \in 1..N |-> eval_data[i][4]]
RefLogits(params) == [i \in 1..N |-> Model_forward(params, RowBundle(i)).logits[1]]
RefPred(params) ==
    LET logits == RefLogits(params)
    IN  [i \in 1..N |-> ArgMax(logits[i])]
RefCorrect(params) ==
    LET pred == RefPred(params)
    IN  Cardinality({i \in 1..N : pred[i] = eval_data[i][4]})
RefF1(params) ==
    LET pred == RefPred(params)
        tp == Cardinality({i \in 1..N : eval_data[i][4] = 1 /\ pred[i] = 1})
        fp == Cardinality({i \in 1..N : eval_data[i][4] = 0 /\ pred[i] = 1})
        fn == Cardinality({i \in 1..N : eval_data[i][4] = 1 /\ pred[i] = 0})
    IN  IF tp = 0 THEN Zero ELSE Rat(2 * tp, 2 * tp + fp + fn)

\* Rows lo..hi of the dataset (1-based, inclusive) as an input bundle without
\* the ambiguity field, and the loss the model gives that slice.
SliceBundle(lo, hi) ==
    [input_ids |-> [i \in 1..(hi - lo + 1) |-> eval_data[lo + i - 1][1]],
     token_type_ids |-> [i \in 1..(hi - lo + 1) |-> eval_data[lo + i - 1][3]],
     attention_mask |-> [i \in 1..(hi - lo + 1) |-> eval_data[lo + i - 1][2]],
     labels |-> [i \in 1..(hi - lo + 1) |-> eval_data[lo + i - 1][4]]]
RefBatchLoss(params, k) ==
    Model_forward(params, SliceBundle(k * B + 1, Min((k + 1) * B, N))).loss
RefLossSum(params) ==
    SumSeq([k \in 1..CeilDiv(N, B) |-> RefBatchLoss(params, k - 1)])

BufLen(buf) == IF IsNone(buf) THEN 0 ELSE Len(Get(buf))
BufRows(buf) == IF IsNone(buf) THEN <<>> ELSE Get(buf)

\* C1: when evaluate returns on a non-empty dataset, the accuracy is (rows
\* whose argmax(logits) is the label) / N and the F1 is the F1 of the
\* per-row outputs over the whole dataset, whatever the batch size (so any
\* two batch sizes, 1 and N among them, give the same accuracy and F1).
C1_AccuracyBatchIndependent ==
    (pc = "report" /\ N >= 1) =>
        /\ RatEq(Get(result).acc, Rat(RefCorrect(Get(model_params)), N))
        /\ RatEq(Get(result).f1, RefF1(Get(model_params)))

C1_Witness ==
    /\ pc = "report"
    /\ N = 3
    /\ B = 2
    /\ RefCorrect(Get(model_params)) = 2
    /\ Get(result).acc = Rat(2, 3)

\* C2: every batch the loop fetches reaches the model invocation, and the
\* bundle it is invoked with holds ambiguity_scores (the batch's fifth
\* column) exactly when the data directory does not contain "baseline_",
\* for the legacy and the extended strategy alike.
C2_AmbiguityFieldContract ==
    ~IsNone(batch) =>
        /\ ~IsNone(inputs)
        /\ Get(inputs).input_ids = Get(batch)[1]
        /\ Baseline => "ambiguity_scores" \notin DOMAIN Get(inputs)
        /\ ~Baseline =>
              /\ "ambiguity_scores" \in DOMAIN Get(inputs)
              /\ Get(inputs)["ambiguity_scores"] = Get(batch)[5]

\* C2 where the code does what the claim says: the extended strategy, and
\* the legacy strategy under a "baseline_" directory.
C2_HoldsOffLegacyNonBaseline ==
    (~args.old_load \/ Baseline) => C2_AmbiguityFieldContract

\* C3: with an empty dataset evaluate ends in an error (np.argmax over the
\* None buffer, in get_metrics) before either normalization: no division by
\* zero is reached, no triple is returned and nothing is printed.
C3_EmptyFailsFast ==
    (Len(SourceRows) = 0) =>
        /\ pc \notin {"report", "done"}
        /\ IsNone(result)
        /\ printed = <<>>
        /\ err # "ZeroDivisionError"
        /\ pc = "error" => err = "AxisError"
        /\ (pc = "loop" /\ Loaded) => (N = 0 /\ agg = reset_aggregates)

C3_Witness ==
    /\ Len(SourceRows) = 0
    /\ pc = "error"
    /\ err = "AxisError"
    /\ agg.nb_eval_steps = 0
    /\ agg.nb_eval_examples = 0

\* The triple a run over the current dataset gives with the parameters of
\* weight file w alone.
RefTriple(w) ==
    [loss |-> Rat(RefLossSum(StateDict[w]), CeilDiv(N, B)),
     acc |-> Rat(RefCorrect(StateDict[w]), N),
     f1 |-> RefF1(StateDict[w])]

\* C4: in every run of main the model holds the parameters of that run's
\* weight file, the aggregates are zero/empty when the loop starts, and the
\* triple printed for weight file k is the one that file's parameters give
\* on the dataset, whatever was evaluated before.
C4_RunsIndependent ==
    /\ pc \in {"begin", "loop", "report"} =>
          model_params = Some(StateDict[args.model_weights[run + 1]])
    /\ (pc = "loop" /\ dl_pos = 0) => agg = reset_aggregates
    /\ pc \in {"main", "done"} => \A k \in 1..Len(printed) :
          LET ref == RefTriple(args.model_weights[k])
          IN  /\ RatEq(printed[k].loss, ref.loss)
              /\ RatEq(printed[k].acc, ref.acc)
              /\ RatEq(printed[k].f1, ref.f1)

C4_Witness ==
    /\ pc = "done"
    /\ Len(printed) = 2
    /\ N = 3
    /\ args.model_weights[1] # args.model_weights[2]
    /\ ~RatEq(printed[1].acc, printed[2].acc)
    /\ printed[2].acc[2] = 3

\* What the claim gives for row i (1-based here, i - 1 in the file) of a
\* file read as split `split`.
ExpectedExample(lines, split, i) ==
    [guid |-> Guid(split, i - 1), text_a |-> lines[i][4], text_b |-> None,
     label |-> lines[i][2]]

\* C5: for each of the processors "old", "new_clean" and "new",
\* get_train_examples and get_dev_examples give one Example per row of the
\* file, row 0 included, in file order, with id "{split}-{i}", the text of
\* cell 3, the label of cell 1 and no secondary text; so do the examples the
\* legacy loader has read.
C5_OneExamplePerRow ==
    /\ \A t \in Tasks :
          LET train == files[TrainFile[t]]
              dev == files[DevFile[t]]
          IN  /\ get_train_examples(t) =
                    [i \in 1..Len(train) |-> ExpectedExample(train, "train", i)]
              /\ get_dev_examples(t) =
                    [i \in 1..Len(dev) |-> ExpectedExample(dev, "dev", i)]
    /\ (args.old_load /\ Loaded) =>
          LET src == SourceRows
          IN  examples = [i \in 1..Len(src) |-> ExpectedExample(src, "dev", i)]

C5_Witness ==
    /\ args.old_load
    /\ pc = "loop"
    /\ task_name = "old"
    /\ Len(files["dev.tsv"]) = 3
    /\ files["dev.tsv"][1] = <<"id", "0", "src", "t1">>
    /\ files["dev.tsv"][3] = <<"id", "1", "src", "t2", "extra">>
    /\ examples[1] = [guid |-> "dev-0", text_a |-> "t1", text_b |-> None,
                      label |-> "0"]
    /\ examples[3] = [guid |-> "dev-2", text_a |-> "t2", text_b |-> None,
                      label |-> "1"]
    /\ get_train_examples("new")[1].guid = "train-0"

\* C6: the loss evaluate returns is the sum of the losses of the
\* ceil(N / B) batches, each counted once, over ceil(N / B): the divisor is
\* the number of batches, not the number of examples.
C6_LossPerBatch ==
    pc = "report" =>
        /\ Get(result).loss[1] = RefLossSum(Get(model_params))
        /\ Get(result).loss[2] = CeilDiv(N, B)
        /\ Get(result).loss[2] = agg.nb_eval_steps

C6_Witness ==
    /\ pc = "report"
    /\ N = 3
    /\ B = 2
    /\ Get(result).loss[1] > 0
    /\ Get(result).loss[2] = 2
    /\ ~RatEq(Get(result).loss, Rat(Get(result).loss[1], N))

\* The positive class is missing from the gold labels or from the
\* predictions that get_metrics is given.
NoGoldPositive ==
    \A i \in 1..BufLen(agg.full_labels) : Get(agg.full_labels)[i] # 1
NoPredictedPositive ==
    \A i \in 1..BufLen(agg.full_logits) : ArgMax(Get(agg.full_logits)[i]) # 1

C8_BatchesCoverDataset ==
    /\ agg.nb_eval_steps <= CeilDiv(N, B)
    /\ (pc \in {"report", "done", "error"} /\ N >= 1) =>
          agg.nb_eval_steps = CeilDiv(N, B)
    /\ (~IsNone(batch) /\ pc \in {"loop", "report", "error"}) =>
          LET k == CeilDiv(dl_pos, B) - 1
              size == Len(Get(batch)[1])
          IN  /\ size = Min(B, N - k * B)
              /\ (k < CeilDiv(N, B) - 1) => size = B
              /\ dl_pos = Min((k + 1) * B, N)
              /\ \A c \in 1..Len(Get(batch)) : \A i \in 1..size :
                    Get(batch)[c][i] = eval_data[k * B + i][c]
              /\ BufRows(agg.full_labels) = SubSeq(RefLabels, 1, dl_pos)
              /\ BufRows(agg.full_logits) =
                    SubSeq(RefLogits(Get(model_params)), 1, dl_pos)

\* C8 where the loop is not cut short by the IndexError of C2: the extended
\* strategy, and the legacy strategy under a "baseline_" directory.
C8_HoldsOffLegacyNonBaseline ==
    (~args.old_load \/ Baseline) => C8_BatchesCoverDataset

\* The batches the loader has yielded, and those the loop body has gone
\* through to its end (all but one the IndexError of line 336 cut short).
BatchesYielded == CeilDiv(dl_pos, B)
BatchesProcessed ==
    IF pc = "error" /\ err = "IndexError"
    THEN BatchesYielded - 1 ELSE BatchesYielded

\* C9: the aggregates agree with the buffers after every batch: the example
\* count is the number of buffered logit rows and of buffered labels, the
\* step count is the number of batches processed, the running correct count
\* is the number of buffered rows whose argmax is the buffered label; at
\* the end the summed count is accuracy(full_logits, full_labels).
C9_AggregatesMatchBuffers ==
    /\ agg.nb_eval_examples = BufLen(agg.full_logits)
    /\ agg.nb_eval_examples = BufLen(agg.full_labels)
    /\ agg.nb_eval_steps = BatchesProcessed
    /\ pc # "error" => agg.nb_eval_examples = dl_pos
    /\ agg.eval_accuracy =
          accuracy(BufRows(agg.full_logits), BufRows(agg.full_labels))
    /\ pc = "report" =>
          Get(result).acc[1] =
              accuracy(Get(agg.full_logits), Get(agg.full_labels))

C9_Witness ==
    /\ pc = "loop"
    /\ agg.nb_eval_steps = 2
    /\ agg.nb_eval_examples = 3
    /\ agg.eval_accuracy = 1
    /\ BufLen(agg.full_logits) = 3

\* C10: under old_load the loader only ever calls get_dev_examples, never
\* get_train_examples, whatever the task name and the other arguments; the
\* examples are those of the dev file, and every row of the dataset has the
\* four fields ids, mask, segment and label.
C10_LegacyReadsDevOnly ==
    args.old_load =>
        /\ \A i \in 1..Len(calls) : calls[i] = "get_dev_examples"
        /\ Loaded =>
              /\ Len(calls) >= 1
              /\ examples = get_dev_examples(task_name)
              /\ Len(eval_data) = Len(files[DevFile[task_name]])
              /\ \A i \in 1..N :
                    /\ Len(eval_data[i]) = 4
                    /\ eval_data[i][1] = TokenId[examples[i].text_a]
                    /\ eval_data[i][4] = LabelId(<<"0", "1">>, examples[i].label)

C10_Witness ==
    /\ args.old_load
    /\ pc = "loop"
    /\ task_name = "new_clean"
    /\ calls = <<"get_dev_examples">>
    /\ N = 2
    /\ examples[2].guid = "dev-1"
    /\ examples # get_train_examples(task_name)
    /\ Len(eval_data[2]) = 4

====
